---- MODULE Spec2Model ----
(***************************************************************************)
(* A model of the S3 multipart upload client: the S3Multipart session      *)
(* (AddPart, Complete, Abort under the session mutex), S3.StartMultipart,  *)
(* S3.Get and the chunking driver S3.putMultipart, together with the       *)
(* store they talk to over HTTP.                                           *)
(***************************************************************************)
EXTENDS Integers, Sequences, FiniteSets, TLC

(***************************************************************************)
(* Bounds of the model.                                                    *)
(***************************************************************************)
\* goroutines that call the session's methods concurrently
NumCallers == 2
\* calls made on the client by the concurrent callers, in total
MaxCalls == 5
\* longest source stream handed to putMultipart
MaxStream == 5
\* largest size argument handed to putMultipart
MaxSize == 5
\* putMultipart's chunk size (7 MiB in the source), scaled to a few bytes
ChunkBytes == 2

(***************************************************************************)
(* Value sets.                                                             *)
(***************************************************************************)
Callers == 1..NumCallers
\* the goroutine that runs putMultipart
Driver == 0
\* the goroutine that runs the finalizer set by runtime.SetFinalizer
Finalizer == NumCallers + 1
Threads == Callers \cup {Driver, Finalizer}
NoThread == -1

Bytes == {0, 1}
\* the ETag header values the store answers a part upload with
Tags == {"e1", "e2"}
\* HTTP statuses the store answers with
Statuses == {200, 204, 403, 500}
\* the object path used by the callers
Path == "k"
\* the Key field of the store's initiation response; "%zz" does not parse
\* as a URL, so http.NewRequest fails on it
Keys == {"k", "%zz"}
UploadIds == {"u1"}
ContentTypes == {"", "text/plain"}

NoObject == <<-1>>
\* the body of the store's error responses
ErrorBody == <<9>>

(***************************************************************************)
(* Return values: the error (or nil) a method hands to its caller.         *)
(***************************************************************************)
Err(kind, type, code) ==
    [kind |-> kind, type |-> type, code |-> code, retry |-> FALSE,
     body |-> <<>>]
Nil == Err("nil", "nil", 0)
\* a call that has not returned yet
Pending == Err("pending", "nil", 0)
\* fmt.Errorf("s3: cannot call ... on an aborted multipart request")
ErrFinalized == Err("finalized", "errorString", 0)
\* the error of http.NewRequest
ErrNewRequest == Err("newrequest", "url.Error", 0)
\* the error of http.DefaultClient.Do
ErrTransport == Err("transport", "url.Error", 0)
\* the error of ioutil.ReadAll on the response body
ErrReadBody == Err("readbody", "error", 0)
\* the error of xml.Unmarshal on the initiation response
ErrXml == Err("xml", "error", 0)
\* the error of io.CopyN on the source stream
ErrReadSource == Err("readsource", "error", 0)
\* fmt.Errorf("s3: ... returned an error (HTTP %d)", resp.StatusCode)
ErrStatus(code) == Err("status", "errorString", code)

VARIABLES
    mp,         \* the S3Multipart object: etags, uploadId, key, completed
    lock,       \* mp.lock: the thread holding it, or NoThread
    pc,         \* per thread: position inside the method it is running
    call,       \* per thread: the method it runs and its arguments
    req,        \* per thread: the HTTP request it has in flight
    resp,       \* per thread: what the HTTP client delivered for it
    ret,        \* per thread: the value its last call returned
    nsent,      \* number of HTTP requests handed to http.DefaultClient.Do
    store,      \* the store: the upload's state, its parts, the object
    ncalls,     \* calls made so far by the concurrent callers
    hist,       \* history of the calls on the session, for the properties
    got,        \* result of the last S3.Get
    drv,        \* the putMultipart activation: its locals and position
    fn          \* the activation of a function of the package run on its
                \* own: Put, signRequest, wrapError, the finalizer

vars == <<mp, lock, pc, call, req, resp, ret, nsent, store, ncalls, hist,
          got, drv, fn>>

\* no such function is running
FnOff == [name |-> "none"]

(***************************************************************************)
(* Pure helpers.                                                           *)
(***************************************************************************)
RECURSIVE SumBytes(_)
SumBytes(s) == IF s = <<>> THEN 0 ELSE Head(s) + SumBytes(Tail(s))

\* md5.Sum of a chunk, as a small checksum
Md5(data) == <<(SumBytes(data) + 3 * Len(data)) % 7>>

\* base64.StdEncoding.EncodeToString
Base64(bs) == <<"b64">> \o bs

\* url.Parse inside http.NewRequest accepts the URL built by S3.resource
ValidURL(key) == key # "%zz"

\* the number of decimal digits fmt.Sprintf("%d", n) prints
DigitLen(n) == IF n < 10 THEN 1 ELSE IF n < 100 THEN 2 ELSE 3

\* len of an ETag value
ETagLen(tag) == 2

\* a request with the fields the client fills in
Request(method, key) ==
    [method |-> method, key |-> key, uploads |-> FALSE, uploadId |-> "",
     partNumber |-> -1, ContentLength |-> 0, ContentType |-> "",
     ContentMD5 |-> <<>>, Host |-> "", Authorization |-> "",
     data |-> <<>>, manifest |-> <<>>]

NoRequest == Request("none", "")

\* S3.signRequest: sets the Authorization header of the request
SignRequest(r) == [r EXCEPT !.Authorization = "AWS accessId:signature"]

\* part numbers counted from zero
NextPartNumberFromZero(etags) == Len(etags)

\* the part number AddPart puts in the query: len(mp.etags)+1
NextPartNumber(etags) == Len(etags) + 1

\* the completion body listing the parts from the last to the first
ManifestReversed(etags) ==
    [idx \in 1..Len(etags) |->
        [PartNumber |-> Len(etags) - idx + 1,
         ETag |-> etags[Len(etags) - idx + 1]]]

\* the completion body with the parts numbered from 0 (idx, not idx+1)
ManifestFromZero(etags) ==
    [idx \in 1..Len(etags) |-> [PartNumber |-> idx - 1, ETag |-> etags[idx]]]

\* the body Complete builds: one <Part> per recorded etag, numbered idx+1
Manifest(etags) ==
    [idx \in 1..Len(etags) |-> [PartNumber |-> idx, ETag |-> etags[idx]]]

RECURSIVE XmlPartsLen(_)
XmlPartsLen(m) ==
    IF m = <<>> THEN 0
    ELSE 51 + DigitLen(Head(m).PartNumber) + ETagLen(Head(m).ETag)
         + XmlPartsLen(Tail(m))

\* len(xmlBody) of the completion body
XmlBodyLen(m) == 25 + XmlPartsLen(m) + 26

\* the status the client's methods accept as success
StatusOK(status) == status = 200

(***************************************************************************)
(* The store (the service behind the HTTP API).  It keeps the parts of the *)
(* upload by part number, a re-upload of a number replacing the earlier    *)
(* one, and assembles the object in the order the completion body lists.   *)
(***************************************************************************)
ErrorStatuses == Statuses \ {200, 204}

RECURSIVE Assemble(_, _)
Assemble(parts, m) ==
    IF m = <<>> THEN <<>>
    ELSE parts[Head(m).PartNumber].data \o Assemble(parts, Tail(m))

EmptyStore == [active |-> FALSE, uploadId |-> "", parts |-> <<>>,
               object |-> NoObject]

Reply(status, st) ==
    [status |-> status, etag |-> "", xmlOk |-> TRUE, uploadId |-> "",
     key |-> "", body |-> <<>>, store |-> st]

FailReplies(st) ==
    {[Reply(s, st) EXCEPT !.body = ErrorBody] : s \in ErrorStatuses}

PutPart(st, r, e) ==
    [st EXCEPT !.parts =
        [n \in DOMAIN st.parts \cup {r.partNumber} |->
            IF n = r.partNumber THEN [data |-> r.data, tag |-> e]
            ELSE st.parts[n]]]

StoreReplies(st, r) ==
    FailReplies(st) \cup
    CASE r.method = "POST" /\ r.uploads ->
           {[Reply(200, [st EXCEPT !.active = TRUE, !.uploadId = u,
                                   !.parts = <<>>])
               EXCEPT !.uploadId = u, !.key = k] :
              u \in UploadIds, k \in Keys}
           \cup {[Reply(200, st) EXCEPT !.xmlOk = FALSE]}
      [] r.method = "PUT" /\ r.partNumber # -1 ->
           IF st.active /\ r.uploadId = st.uploadId /\ r.partNumber >= 1
           THEN {[Reply(200, PutPart(st, r, e)) EXCEPT !.etag = e] :
                    e \in Tags}
           ELSE {}
      [] r.method = "PUT" /\ r.partNumber = -1 ->
           {Reply(200, [st EXCEPT !.object = r.data])}
      [] r.method = "POST" /\ ~r.uploads ->
           IF /\ st.active /\ r.uploadId = st.uploadId
              /\ \A i \in 1..Len(r.manifest) :
                    r.manifest[i].PartNumber \in DOMAIN st.parts
           THEN {Reply(200, [st EXCEPT !.active = FALSE, !.parts = <<>>,
                               !.object = Assemble(st.parts, r.manifest)])}
           ELSE {}
      [] r.method = "DELETE" ->
           IF st.active /\ r.uploadId = st.uploadId
           THEN {Reply(s, [st EXCEPT !.active = FALSE, !.parts = <<>>]) :
                    s \in {200, 204}}
           ELSE {}
      [] r.method = "GET" ->
           IF st.object # NoObject
           THEN {[Reply(200, st) EXCEPT !.body = st.object]}
           ELSE {}
      [] OTHER -> {}

\* what http.DefaultClient.Do and the reading of the body give the client
Deliveries == {"response", "transport", "readbody"}

(***************************************************************************)
(* Calls and their arguments.                                              *)
(***************************************************************************)
Call(op, data, size, md5sum, contentType) ==
    [op |-> op, data |-> data, size |-> size, md5sum |-> md5sum,
     contentType |-> contentType]

AddPartCall(data, md5sum) == Call("AddPart", data, Len(data), md5sum, "")
CompleteCall(contentType) == Call("Complete", <<>>, 0, <<>>, contentType)
AbortCall == Call("Abort", <<>>, 0, <<>>, "")
NoCall == Call("none", <<>>, 0, <<>>, "")

\* the calls the concurrent callers make; md5sum <<>> stands for nil
CallerCalls ==
    {AddPartCall(<<0>>, <<>>), AddPartCall(<<1>>, Md5(<<1>>))}
    \cup {CompleteCall(ct) : ct \in ContentTypes}
    \cup {AbortCall}

(***************************************************************************)
(* The requests the three methods build.                                   *)
(***************************************************************************)
\* AddPart, lines 46-65
AddPartRequest(m, c) ==
    SignRequest(
        [Request("PUT", m.key) EXCEPT
            !.uploadId = m.uploadId,
            !.partNumber = NextPartNumber(m.etags),
            !.ContentMD5 = IF c.md5sum # <<>> THEN Base64(c.md5sum) ELSE <<>>,
            !.ContentLength = c.size,
            !.Host = "host",
            !.ContentType = "application/octet-stream",
            !.data = c.data])

\* Complete, lines 95-121
CompleteRequest(m, c) ==
    SignRequest(
        [Request("POST", m.key) EXCEPT
            !.uploadId = m.uploadId,
            !.manifest = Manifest(m.etags),
            !.ContentLength = XmlBodyLen(Manifest(m.etags)),
            !.Host = "host",
            !.ContentType = IF c.contentType = ""
                            THEN "application/octet-stream"
                            ELSE c.contentType])

\* Abort, lines 150-153: the request is handed to the client as built
AbortRequest(m, c) ==
    [Request("DELETE", m.key) EXCEPT !.uploadId = m.uploadId]

BuildRequest(m, c) ==
    CASE c.op = "AddPart" -> AddPartRequest(m, c)
      [] c.op = "Complete" -> CompleteRequest(m, c)
      [] c.op = "Abort" -> AbortRequest(m, c)

(***************************************************************************)
(* The steps of a method of S3Multipart, run by thread t.                  *)
(***************************************************************************)
\* a concurrent caller calls AddPart, Complete or Abort on the session
Invoke(t, c) ==
    /\ t \in Callers
    /\ drv.pc = "off"
    /\ fn = FnOff
    /\ mp.open
    /\ pc[t] = "idle"
    /\ ncalls < MaxCalls
    /\ ncalls' = ncalls + 1
    /\ call' = [call EXCEPT ![t] = c]
    /\ ret' = [ret EXCEPT ![t] = Pending]
    /\ pc' = [pc EXCEPT ![t] = "blocked"]
    /\ UNCHANGED fn
    /\ UNCHANGED <<mp, lock, req, resp, nsent, store, hist, got, drv>>

\* a mutex whose Lock never waits
LockFreeAlways(holder) == TRUE

\* sync.Mutex: Lock returns only while no thread holds the mutex
LockFree(holder) == holder = NoThread

\* mp.lock.Lock()
Acquire(t) ==
    /\ pc[t] = "blocked"
    /\ LockFree(lock)
    /\ lock' = t
    /\ pc' = [pc EXCEPT ![t] = "locked"]
    /\ UNCHANGED fn
    /\ UNCHANGED <<mp, call, req, resp, ret, nsent, store, ncalls, hist, got,
                   drv>>

\* the methods without their test of mp.completed
FinalizedIgnored(m) == FALSE

\* the test "if mp.completed" that opens each method
Finalized(m) == m.completed

\* from the check of mp.completed to http.DefaultClient.Do
Begin(t) ==
    /\ pc[t] = "locked"
    /\ IF Finalized(mp)
       THEN /\ ret' = [ret EXCEPT ![t] = ErrFinalized]
            /\ pc' = [pc EXCEPT ![t] = "return"]
            /\ UNCHANGED <<req, nsent>>
       ELSE IF ~ValidURL(mp.key)
       THEN /\ ret' = [ret EXCEPT ![t] = ErrNewRequest]
            /\ pc' = [pc EXCEPT ![t] = "return"]
            /\ UNCHANGED <<req, nsent>>
       ELSE /\ req' = [req EXCEPT ![t] = BuildRequest(mp, call[t])]
            /\ nsent' = nsent + 1
            /\ pc' = [pc EXCEPT ![t] = "wait"]
            /\ UNCHANGED ret
    /\ UNCHANGED fn
    /\ UNCHANGED <<mp, lock, call, resp, store, ncalls, hist, got, drv>>

\* AddPart recording the ETag without looking at the status
AddPartFinishAnyStatus(m, how, reply) ==
    IF how = "transport" THEN [mp |-> m, ret |-> ErrTransport]
    ELSE IF how = "readbody" THEN [mp |-> m, ret |-> ErrReadBody]
    ELSE [mp |-> [m EXCEPT !.etags = Append(m.etags, reply.etag)],
          ret |-> IF StatusOK(reply.status) THEN Nil
                  ELSE ErrStatus(reply.status)]

\* AddPart, lines 67-83, given what the HTTP client delivered
AddPartFinish(m, how, reply) ==
    IF how = "transport" THEN [mp |-> m, ret |-> ErrTransport]
    ELSE IF how = "readbody" THEN [mp |-> m, ret |-> ErrReadBody]
    ELSE IF ~StatusOK(reply.status)
    THEN [mp |-> m, ret |-> ErrStatus(reply.status)]
    ELSE [mp |-> [m EXCEPT !.etags = Append(m.etags, reply.etag)],
          ret |-> Nil]

\* Complete marking the session completed whatever the answer
CompleteFinishMarks(m, how, reply) ==
    IF how = "transport"
    THEN [mp |-> [m EXCEPT !.completed = TRUE], ret |-> ErrTransport]
    ELSE IF ~StatusOK(reply.status)
    THEN [mp |-> [m EXCEPT !.completed = TRUE],
          ret |-> ErrStatus(reply.status)]
    ELSE [mp |-> [m EXCEPT !.completed = TRUE], ret |-> Nil]

\* Complete, lines 123-133
CompleteFinish(m, how, reply) ==
    IF how = "transport" THEN [mp |-> m, ret |-> ErrTransport]
    ELSE IF ~StatusOK(reply.status)
    THEN [mp |-> m, ret |-> ErrStatus(reply.status)]
    ELSE [mp |-> m, ret |-> Nil]

\* Abort marking the session completed before it looks at the status
AbortFinishMarksFirst(m, how, reply) ==
    IF how = "transport" THEN [mp |-> m, ret |-> ErrTransport]
    ELSE IF ~StatusOK(reply.status)
    THEN [mp |-> [m EXCEPT !.completed = TRUE],
          ret |-> ErrStatus(reply.status)]
    ELSE [mp |-> [m EXCEPT !.completed = TRUE], ret |-> Nil]

\* Abort, lines 158-169
AbortFinish(m, how, reply) ==
    IF how = "transport" THEN [mp |-> m, ret |-> ErrTransport]
    ELSE IF ~StatusOK(reply.status)
    THEN [mp |-> m, ret |-> ErrStatus(reply.status)]
    ELSE [mp |-> [m EXCEPT !.completed = TRUE], ret |-> Nil]

MethodFinish(op, m, how, reply) ==
    CASE op = "AddPart" -> AddPartFinish(m, how, reply)
      [] op = "Complete" -> CompleteFinish(m, how, reply)
      [] op = "Abort" -> AbortFinish(m, how, reply)

\* the reading of the response body can fail only where the body is read
DeliveriesOf(op) ==
    IF op = "AddPart" THEN Deliveries ELSE Deliveries \ {"readbody"}

\* what the thread sees of the answer: the client's error, or the status
Delivered(how, reply) ==
    [how |-> how, status |-> IF how = "transport" THEN 0 ELSE reply.status]

NoResponse == [how |-> "none", status |-> 0]

\* the history after a method got its answer and decided its return value
Observe(h, c, r, result, reply) ==
    CASE c.op = "AddPart" ->
           IF result = Nil
           THEN [h EXCEPT !.addOk = Append(@, [tag |-> reply.etag,
                                               data |-> c.data]),
                          !.failedPart = 0]
           ELSE [h EXCEPT !.addFailed = TRUE, !.failedPart = r.partNumber]
      [] c.op = "Complete" ->
           IF result = Nil THEN [h EXCEPT !.completeOk = TRUE]
           ELSE [h EXCEPT !.completeFailed = TRUE]
      [] OTHER -> h

NoHistory == [addOk |-> <<>>, addFailed |-> FALSE, failedPart |-> 0,
              completeOk |-> FALSE, completeFailed |-> FALSE]

\* the store answers the request in flight and the method handles the answer
Finish(t) ==
    /\ pc[t] = "wait"
    /\ \E reply \in StoreReplies(store, req[t]), how \in DeliveriesOf(call[t].op) :
          LET out == MethodFinish(call[t].op, mp, how, reply) IN
          /\ store' = reply.store
          /\ mp' = out.mp
          /\ ret' = [ret EXCEPT ![t] = out.ret]
          /\ resp' = [resp EXCEPT ![t] = Delivered(how, reply)]
          /\ hist' = Observe(hist, call[t], req[t], out.ret, reply)
    /\ req' = [req EXCEPT ![t] = NoRequest]
    /\ pc' = [pc EXCEPT ![t] = "return"]
    /\ UNCHANGED fn
    /\ UNCHANGED <<lock, call, nsent, ncalls, got, drv>>

\* a method that returns without unlocking
ReturnKeepsLock(t) ==
    /\ pc[t] = "return"
    /\ pc' = [pc EXCEPT ![t] = "idle"]
    /\ call' = [call EXCEPT ![t] = NoCall]
    /\ resp' = [resp EXCEPT ![t] = NoResponse]
    /\ ret' = IF t = Driver THEN ret ELSE [ret EXCEPT ![t] = Nil]
    /\ UNCHANGED fn
    /\ UNCHANGED <<mp, lock, req, nsent, store, ncalls, hist, got, drv>>

\* the deferred mp.lock.Unlock() and the return to the caller
Return(t) ==
    /\ pc[t] = "return"
    /\ lock' = NoThread
    /\ pc' = [pc EXCEPT ![t] = "idle"]
    /\ call' = [call EXCEPT ![t] = NoCall]
    /\ resp' = [resp EXCEPT ![t] = NoResponse]
    /\ ret' = IF t = Driver THEN ret ELSE [ret EXCEPT ![t] = Nil]
    /\ UNCHANGED fn
    /\ UNCHANGED <<mp, req, nsent, store, ncalls, hist, got, drv>>

(***************************************************************************)
(* S3.StartMultipart and S3.Get.                                           *)
(***************************************************************************)
NoSession == [open |-> FALSE, etags |-> <<>>, uploadId |-> "", key |-> "",
              completed |-> FALSE]

\* an error mapper that marks every client and server error retryable
S3ErrorRetryAnyError(code, body) ==
    [Err("status", "S3Error", code) EXCEPT !.retry = (code >= 400),
                                           !.body = body]

\* wrapError: the body is read from resp.Body at the time of the call
S3Error(code, body) ==
    [Err("status", "S3Error", code) EXCEPT !.retry = (code = 500),
                                           !.body = body]

\* StartMultipart, line 275 and lines 280-282
StartRequest(path) ==
    SignRequest([Request("POST", path) EXCEPT !.uploads = TRUE,
                                              !.Host = "host"])

\* StartMultipart, lines 284-314; ioutil.ReadAll has drained resp.Body
\* before wrapError reads it
StartFinish(how, reply) ==
    IF how = "transport" THEN [mp |-> NoSession, ret |-> ErrTransport]
    ELSE IF how = "readbody" THEN [mp |-> NoSession, ret |-> ErrReadBody]
    ELSE IF ~StatusOK(reply.status)
    THEN [mp |-> NoSession, ret |-> S3Error(reply.status, <<>>)]
    ELSE IF ~reply.xmlOk THEN [mp |-> NoSession, ret |-> ErrXml]
    ELSE [mp |-> [open |-> TRUE, etags |-> <<>>, uploadId |-> reply.uploadId,
                  key |-> reply.key, completed |-> FALSE],
          ret |-> Nil]

\* Get, lines 199-204
GetRequest(path) == SignRequest(Request("GET", path))

\* Get, lines 206-215
GetFinish(how, reply) ==
    IF how = "transport" THEN [ret |-> ErrTransport, body |-> <<>>]
    ELSE IF ~StatusOK(reply.status)
    THEN [ret |-> S3Error(reply.status, reply.body), body |-> <<>>]
    ELSE [ret |-> Nil, body |-> reply.body]

NotFetched == [ret |-> Pending, body |-> <<>>]

\* a caller starts the multipart upload the callers then share
StartMultipart ==
    /\ ~mp.open
    /\ drv.pc = "off"
    /\ ncalls < MaxCalls
    /\ ncalls' = ncalls + 1
    /\ ValidURL(Path)
    /\ nsent' = nsent + 1
    /\ \E reply \in StoreReplies(store, StartRequest(Path)), how \in Deliveries :
          /\ store' = reply.store
          /\ mp' = StartFinish(how, reply).mp
    /\ UNCHANGED fn
    /\ UNCHANGED <<lock, pc, call, req, resp, ret, hist, got, drv>>

\* a Get of the path, whole
GetStep ==
    /\ ValidURL(Path)
    /\ nsent' = nsent + 1
    /\ \E reply \in StoreReplies(store, GetRequest(Path)),
          how \in Deliveries \ {"readbody"} :
          /\ store' = reply.store
          /\ got' = GetFinish(how, reply)
    /\ UNCHANGED fn
    /\ UNCHANGED <<mp, lock, pc, call, req, resp, ret, hist>>

\* a caller fetches the object
Get ==
    /\ drv.pc = "off"
    /\ ncalls < MaxCalls
    /\ ncalls' = ncalls + 1
    /\ GetStep
    /\ UNCHANGED drv

(***************************************************************************)
(* S3.putMultipart, run by the thread Driver.                              *)
(***************************************************************************)
RECURSIVE SeqsUpTo(_)
SeqsUpTo(n) ==
    IF n = 0 THEN {<<>>}
    ELSE SeqsUpTo(n - 1) \cup
         {Append(s, b) : s \in {x \in SeqsUpTo(n - 1) : Len(x) = n - 1},
                         b \in Bytes}

\* history of putMultipart: the step that failed first, its error and the
\* number of calls made on the session before it
NoFailure == [step |-> "none", at |-> 0, er |-> Nil]

Failure(step, calls, er) == [step |-> step, at |-> Len(calls), er |-> er]

MadeCall(op, size) == [op |-> op, size |-> size]

DrvOff == [pc |-> "off", stream |-> <<>>, size |-> 0, contentType |-> "",
           remaining |-> 0, chunkSize |-> 0, pos |-> 0, er |-> Nil,
           calls |-> <<>>, failed |-> NoFailure]

\* lines 111-124: StartMultipart, the deferred Abort is registered only
\* when it succeeded
DrvStart ==
    /\ drv.pc = "start"
    /\ ValidURL(Path)
    /\ nsent' = nsent + 1
    /\ \E reply \in StoreReplies(store, StartRequest(Path)), how \in Deliveries :
          LET out == StartFinish(how, reply) IN
          /\ store' = reply.store
          /\ mp' = out.mp
          /\ drv' = IF out.ret # Nil
                    THEN [drv EXCEPT !.pc = "done", !.er = out.ret]
                    ELSE [drv EXCEPT !.pc = "loop", !.chunkSize = ChunkBytes,
                                     !.remaining = drv.size]
    /\ UNCHANGED fn
    /\ UNCHANGED <<lock, pc, call, req, resp, ret, ncalls, hist, got>>

\* a loop that never shortens the last chunk
RoundChunkSizeFull(remaining, chunkSize) == chunkSize

\* the chunk size of this round, lines 130-132
RoundChunkSize(remaining, chunkSize) ==
    IF remaining < chunkSize THEN remaining ELSE chunkSize

\* lines 126-140: the loop test, the read of one chunk and the call of
\* AddPart; line 145: the call of Complete when nothing remains
DrvLoop ==
    /\ drv.pc = "loop"
    /\ IF drv.remaining > 0
       THEN LET cs == RoundChunkSize(drv.remaining, drv.chunkSize)
                chunk == SubSeq(drv.stream, drv.pos + 1, drv.pos + cs)
            IN  IF Len(drv.stream) - drv.pos < cs
                THEN /\ drv' = [drv EXCEPT !.pc = "defer", !.chunkSize = cs,
                                           !.pos = Len(drv.stream),
                                           !.er = ErrReadSource,
                                           !.failed = Failure("read",
                                               drv.calls, ErrReadSource)]
                     /\ UNCHANGED <<pc, call, ret>>
                ELSE /\ drv' = [drv EXCEPT !.pc = "addpart", !.chunkSize = cs,
                                           !.pos = drv.pos + cs,
                                           !.calls = Append(@, MadeCall("AddPart", cs))]
                     /\ call' = [call EXCEPT ![Driver] =
                                    Call("AddPart", chunk, cs, Md5(chunk), "")]
                     /\ ret' = [ret EXCEPT ![Driver] = Pending]
                     /\ pc' = [pc EXCEPT ![Driver] = "blocked"]
       ELSE /\ drv' = [drv EXCEPT !.pc = "complete",
                                  !.calls = Append(@, MadeCall("Complete", 0))]
            /\ call' = [call EXCEPT ![Driver] = CompleteCall(drv.contentType)]
            /\ ret' = [ret EXCEPT ![Driver] = Pending]
            /\ pc' = [pc EXCEPT ![Driver] = "blocked"]
    /\ UNCHANGED fn
    /\ UNCHANGED <<mp, lock, req, resp, nsent, store, ncalls, hist, got>>

\* lines 140-142 and the loop's post statement, line 126
DrvAddPartReturned ==
    /\ drv.pc = "addpart"
    /\ pc[Driver] = "idle"
    /\ drv' = IF ret[Driver] # Nil
              THEN [drv EXCEPT !.pc = "defer", !.er = ret[Driver],
                               !.failed = Failure("AddPart", drv.calls,
                                                  ret[Driver])]
              ELSE [drv EXCEPT !.pc = "loop",
                               !.remaining = drv.remaining - drv.chunkSize]
    /\ UNCHANGED fn
    /\ UNCHANGED <<mp, lock, pc, call, req, resp, ret, nsent, store, ncalls,
                   hist, got>>

\* line 145: return mp.Complete(contentType)
DrvCompleteReturned ==
    /\ drv.pc = "complete"
    /\ pc[Driver] = "idle"
    /\ drv' = [drv EXCEPT !.pc = "defer", !.er = ret[Driver],
                          !.failed = IF ret[Driver] = Nil THEN NoFailure
                                     ELSE Failure("Complete", drv.calls,
                                                  ret[Driver])]
    /\ UNCHANGED fn
    /\ UNCHANGED <<mp, lock, pc, call, req, resp, ret, nsent, store, ncalls,
                   hist, got>>

\* a putMultipart without the deferred Abort
DrvDeferNoAbort ==
    /\ drv.pc = "defer"
    /\ drv' = [drv EXCEPT !.pc = "done"]
    /\ UNCHANGED fn
    /\ UNCHANGED <<mp, lock, pc, call, req, resp, ret, nsent, store, ncalls,
                   hist, got>>

\* lines 115-119: the deferred function
DrvDefer ==
    /\ drv.pc = "defer"
    /\ IF drv.er # Nil
       THEN /\ drv' = [drv EXCEPT !.pc = "abort",
                                  !.calls = Append(@, MadeCall("Abort", 0))]
            /\ call' = [call EXCEPT ![Driver] = AbortCall]
            /\ ret' = [ret EXCEPT ![Driver] = Pending]
            /\ pc' = [pc EXCEPT ![Driver] = "blocked"]
       ELSE /\ drv' = [drv EXCEPT !.pc = "done"]
            /\ UNCHANGED <<pc, call, ret>>
    /\ UNCHANGED fn
    /\ UNCHANGED <<mp, lock, req, resp, nsent, store, ncalls, hist, got>>

\* a deferred function that reports the error of Abort
DeferredResultOfAbort(er, abortResult) ==
    IF abortResult # Nil THEN abortResult ELSE er

\* line 117: the value of mp.Abort() is dropped; putMultipart returns er
DeferredResult(er, abortResult) == er

\* the deferred function returns, and putMultipart with it
DrvAbortReturned ==
    /\ drv.pc = "abort"
    /\ pc[Driver] = "idle"
    /\ drv' = [drv EXCEPT !.pc = "done",
                          !.er = DeferredResult(drv.er, ret[Driver])]
    /\ UNCHANGED fn
    /\ UNCHANGED <<mp, lock, pc, call, req, resp, ret, nsent, store, ncalls,
                   hist, got>>

\* the caller of putMultipart fetches the object after it returned
DrvGet ==
    /\ drv.pc = "done"
    /\ drv' = [drv EXCEPT !.pc = "fetched"]
    /\ GetStep
    /\ UNCHANGED ncalls

(***************************************************************************)
(* Specifications.                                                         *)
(***************************************************************************)
InitCommon ==
    /\ mp = NoSession
    /\ lock = NoThread
    /\ pc = [t \in Threads |-> "idle"]
    /\ call = [t \in Threads |-> NoCall]
    /\ req = [t \in Threads |-> NoRequest]
    /\ resp = [t \in Threads |-> NoResponse]
    /\ ret = [t \in Threads |-> Nil]
    /\ nsent = 0
    /\ store = EmptyStore
    /\ ncalls = 0
    /\ hist = NoHistory
    /\ got = NotFetched

\* concurrent callers sharing one session
Init ==
    /\ InitCommon
    /\ drv = DrvOff
    /\ fn = FnOff

Next ==
    \/ StartMultipart
    \/ \E t \in Callers, c \in CallerCalls : Invoke(t, c)
    \/ \E t \in Callers : Acquire(t)
    \/ \E t \in Callers : Begin(t)
    \/ \E t \in Callers : Finish(t)
    \/ \E t \in Callers : Return(t)
    \/ Get

Spec == Init /\ [][Next]_vars

\* one call of putMultipart(r, size, path, contentType), then a Get
DriverInit ==
    /\ InitCommon
    /\ \E stream \in SeqsUpTo(MaxStream), size \in 0..MaxSize,
          ct \in ContentTypes :
          drv = [DrvOff EXCEPT !.pc = "start", !.stream = stream,
                               !.size = size, !.contentType = ct]
    /\ fn = FnOff

DriverNext ==
    \/ DrvStart
    \/ DrvLoop
    \/ DrvAddPartReturned
    \/ DrvCompleteReturned
    \/ DrvDefer
    \/ DrvAbortReturned
    \/ DrvGet
    \/ Acquire(Driver)
    \/ Begin(Driver)
    \/ Finish(Driver)
    \/ Return(Driver)

DriverSpec == DriverInit /\ [][DriverNext]_vars

\* both uses of the client: the shared session and putMultipart
AllInit == Init \/ DriverInit

AllNext == Next \/ DriverNext

AllSpec == AllInit /\ [][AllNext]_vars

(***************************************************************************)
(* Properties of the session under concurrent callers (Spec).              *)
(***************************************************************************)
\* thread t leaves the test of mp.completed in this step
Begins(t) == pc[t] = "locked" /\ pc'[t] # "locked"

\* thread t gets the answer to its request in this step
Finishes(t, op) == pc[t] = "wait" /\ pc'[t] = "return" /\ call[t].op = op

\* thread t is between its lock acquisition and its return
InMethod(t) == pc[t] \in {"locked", "wait", "return"}

\* C1: once a Complete call has returned nil, every AddPart, Complete or
\* Abort that runs on the session fails with the already-finalized error
\* and sends no request to the store.
C1_CompleteFinalizes ==
    [][\A t \in Threads :
          hist.completeOk /\ Begins(t)
             => ret'[t] = ErrFinalized /\ nsent' = nsent]_vars

\* C2: Finalized is terminal: a completed session stays completed, and
\* every method run on it returns the already-finalized error, sends no
\* request and leaves etags, uploadId and key as they were.
C2_FinalizedTerminal ==
    [][mp.completed =>
          /\ mp' = mp
          /\ \A t \in Threads : pc'[t] # "wait"
          /\ \A t \in Threads :
                Begins(t) => /\ ret'[t] = ErrFinalized
                             /\ nsent' = nsent
                             /\ req' = req]_vars

\* a second Abort fails on a session a first Abort finalized
C2_Witness ==
    \E t \in Threads :
        /\ pc[t] = "return" /\ call[t].op = "Abort"
        /\ ret[t] = ErrFinalized /\ mp.completed /\ mp.etags # <<>>

\* C3: the manifest of every completion request lists the parts 1..N in
\* ascending order, N the number of AddPart calls that returned nil, the
\* tag of part i being the tag answered to the i-th of them.
C3_ManifestOrder ==
    \A t \in Threads :
        pc[t] = "wait" /\ call[t].op = "Complete" =>
            req[t].manifest =
                [i \in 1..Len(hist.addOk) |->
                    [PartNumber |-> i, ETag |-> hist.addOk[i].tag]]

\* a completion request after two successful and one failed AddPart, the
\* two tags different
C3_Witness ==
    \E t \in Threads :
        /\ pc[t] = "wait" /\ call[t].op = "Complete"
        /\ Len(hist.addOk) = 2 /\ hist.addFailed
        /\ hist.addOk[1].tag # hist.addOk[2].tag

\* C4: an AddPart that fails after its request was sent leaves the session
\* open and etags unchanged, and the next part upload carries the part
\* number of the failed one; an AddPart that succeeds appends one entry and
\* keeps the earlier ones in place.
C4_FailedAddPartRetry ==
    [][\A t \in Threads :
          /\ Finishes(t, "AddPart") /\ ret'[t] # Nil => mp' = mp
          /\ Finishes(t, "AddPart") /\ ret'[t] = Nil =>
                /\ Len(mp'.etags) = Len(mp.etags) + 1
                /\ SubSeq(mp'.etags, 1, Len(mp.etags)) = mp.etags
                /\ ~mp'.completed
          /\ Begins(t) /\ pc'[t] = "wait" /\ call[t].op = "AddPart"
                /\ hist.failedPart # 0
                => req'[t].partNumber = hist.failedPart]_vars

\* the retry of a failed second part succeeded
C4_Witness ==
    \E t \in Threads :
        /\ pc[t] = "return" /\ call[t].op = "AddPart" /\ ret[t] = Nil
        /\ hist.addFailed /\ Len(mp.etags) = 2 /\ ~mp.completed

\* C5: a Complete that fails leaves the session open with etags unchanged
\* and sends no request of its own after the failure; a Complete or Abort
\* that runs afterwards on the still open session sends its request.
C5_FailedCompleteStaysOpen ==
    [][\A t \in Threads :
          /\ Finishes(t, "Complete") /\ ret'[t] # Nil =>
                mp' = mp /\ ~mp'.completed /\ nsent' = nsent
          /\ pc[t] = "return" /\ pc'[t] # "return"
                /\ call[t].op = "Complete" /\ ret[t] # Nil
                => mp' = mp /\ nsent' = nsent
          /\ Begins(t) /\ hist.completeFailed /\ ~mp.completed
                /\ call[t].op \in {"Complete", "Abort"}
                => pc'[t] = "wait" /\ nsent' = nsent + 1]_vars

\* an Abort is in flight after a Complete failed
C5_Witness ==
    \E t \in Threads :
        /\ pc[t] = "wait" /\ call[t].op = "Abort"
        /\ hist.completeFailed /\ ~hist.completeOk /\ mp.etags # <<>>

C7_MutualExclusion ==
    [][/\ \A t, u \in Threads : InMethod(t)' /\ InMethod(u)' => t = u
       /\ \A t \in Threads : InMethod(t)' => lock' = t
       /\ mp.open /\ mp' # mp => lock # NoThread /\ pc[lock] = "wait"
                                 /\ pc'[lock] = "return"
       /\ \A t \in Threads :
             pc[t] = "blocked" /\ lock # NoThread => pc'[t] = "blocked"]_vars

\* one caller waits for the lock while another waits for the store
C7_Witness ==
    \E t, u \in Threads :
        /\ pc[t] = "wait" /\ pc[u] = "blocked"
        /\ call[t].op = "AddPart" /\ call[u].op = "AddPart"

(***************************************************************************)
(* Properties of putMultipart (DriverSpec) and of the round trip.          *)
(***************************************************************************)
\* the sizes of the AddPart calls putMultipart made, in order
RECURSIVE AddPartSizes(_)
AddPartSizes(calls) ==
    IF calls = <<>> THEN <<>>
    ELSE IF Head(calls).op = "AddPart"
         THEN <<Head(calls).size>> \o AddPartSizes(Tail(calls))
         ELSE AddPartSizes(Tail(calls))

RECURSIVE SumSeq(_)
SumSeq(s) == IF s = <<>> THEN 0 ELSE Head(s) + SumSeq(Tail(s))

CeilDiv(a, b) == (a + b - 1) \div b

Called(op) == \E i \in 1..Len(drv.calls) : drv.calls[i].op = op

\* C8: when every read and upload succeeded (putMultipart reached its call
\* of Complete) it made ceil(size / C) AddPart calls, all of length C but
\* the last, the last of length size mod C, or C when C divides size, the
\* lengths adding up to size; and every part upload declares as
\* Content-Length the number of bytes read for it.
C8_ChunkSplit ==
    LET sizes == AddPartSizes(drv.calls)
        n == Len(sizes)
    IN  /\ Called("Complete") =>
            /\ n = CeilDiv(drv.size, ChunkBytes)
            /\ \A i \in 1..(n - 1) : sizes[i] = ChunkBytes
            /\ n > 0 => sizes[n] = IF drv.size % ChunkBytes = 0
                                   THEN ChunkBytes
                                   ELSE drv.size % ChunkBytes
            /\ SumSeq(sizes) = drv.size
        /\ pc[Driver] = "wait" /\ call[Driver].op = "AddPart" =>
            /\ req[Driver].ContentLength = Len(req[Driver].data)
            /\ req[Driver].ContentLength = sizes[n]

\* putMultipart reached Complete after several chunks, the last one short
C8_Witness ==
    LET sizes == AddPartSizes(drv.calls) IN
    /\ Called("Complete") /\ Len(sizes) >= 2
    /\ sizes[Len(sizes)] < ChunkBytes

\* C9: when a read or an AddPart failed, putMultipart made no further
\* AddPart call and no Complete call, called Abort once, and returned the
\* error of the read or of the AddPart, whatever Abort returned.
C9_AbortOnFailure ==
    drv.pc \in {"done", "fetched"} /\ drv.failed.step \in {"read", "AddPart"}
    => /\ drv.calls = SubSeq(drv.calls, 1, drv.failed.at)
                      \o <<MadeCall("Abort", 0)>>
       /\ ~Called("Complete")
       /\ \A i \in 1..drv.failed.at : drv.calls[i].op = "AddPart"
       /\ drv.er = drv.failed.er
       /\ drv.er # Nil

\* the second AddPart failed and the Abort that followed failed differently
C9_Witness ==
    /\ drv.pc = "done" /\ drv.failed.step = "AddPart" /\ drv.failed.at = 2
    /\ ret[Driver] # Nil /\ ret[Driver] # drv.failed.er

\* the chunks of the AddPart calls that returned nil, concatenated
RECURSIVE ConcatData(_)
ConcatData(parts) ==
    IF parts = <<>> THEN <<>>
    ELSE Head(parts).data \o ConcatData(Tail(parts))

\* C10: after a Complete that returned nil, a Get that succeeds returns
\* the chunks of the successful AddPart calls concatenated in call order;
\* after a putMultipart that returned nil it returns the first size bytes
\* of the source stream.
C10_RoundTrip ==
    /\ hist.completeOk /\ got.ret = Nil =>
          got.body = ConcatData(hist.addOk)
    /\ drv.pc = "fetched" /\ drv.er = Nil /\ got.ret = Nil =>
          got.body = SubSeq(drv.stream, 1, drv.size)

\* two different chunks were uploaded, completed and fetched
C10_Witness ==
    /\ hist.completeOk /\ got.ret = Nil
    /\ Len(hist.addOk) = 2 /\ hist.addOk[1].data # hist.addOk[2].data
    /\ ~hist.addFailed

(***************************************************************************)
(* Properties of the errors and of the requests.                           *)
(***************************************************************************)
\* C11: when the store answers the initiation with a non-success status,
\* StartMultipart (and putMultipart, which returns its error as it is)
\* returns a store error whose body is the body of the store's response.
C11_StartErrorBody ==
    drv.pc = "done" /\ drv.calls = <<>> /\ drv.er.kind = "status"
    => drv.er.type = "S3Error" /\ drv.er.body = ErrorBody

\* C12: a non-success status delivered to AddPart, Complete or Abort is
\* returned as the typed store error with the status code, the body of the
\* response and the retry flag.
C12_TypedStoreError ==
    \A t \in Threads :
        pc[t] = "return" /\ resp[t].how = "response"
        /\ ~StatusOK(resp[t].status)
        => /\ ret[t].type = "S3Error"
           /\ ret[t].code = resp[t].status
           /\ ret[t].body = ErrorBody
           /\ ret[t].retry = (resp[t].status = 500)

\* C13: every request of the session's methods carries an Authorization
\* header, the DELETE of Abort included.
C13_RequestsSigned ==
    \A t \in Threads :
        pc[t] = "wait" => req[t].Authorization # ""

\* C17: with concurrent callers, a part upload in flight carries the number
\* one plus the count of recorded parts and its thread holds the lock, no
\* two part uploads are in flight with the same number, and the AddPart
\* calls that return nil carry, in the order they ran, the numbers 1, 2,
\* ..., N, each becoming the count of recorded parts.
C17_PartNumbers ==
    [][/\ \A t \in Threads :
             pc'[t] = "wait" /\ call'[t].op = "AddPart"
             => /\ req'[t].partNumber = Len(mp'.etags) + 1
                /\ lock' = t
       /\ \A t, u \in Threads :
             /\ pc'[t] = "wait" /\ call'[t].op = "AddPart"
             /\ pc'[u] = "wait" /\ call'[u].op = "AddPart"
             /\ req'[t].partNumber = req'[u].partNumber
             => t = u
       /\ \A t \in Threads :
             Finishes(t, "AddPart") /\ ret'[t] = Nil
             => /\ req[t].partNumber = Len(hist.addOk) + 1
                /\ Len(hist'.addOk) = req[t].partNumber
                /\ Len(mp'.etags) = req[t].partNumber]_vars

\* the upload of part 2 is in flight, after a failed upload, while another
\* caller of AddPart waits for the lock
C17_Witness ==
    \E t, u \in Callers :
        /\ pc[t] = "wait" /\ call[t].op = "AddPart"
        /\ req[t].partNumber = 2 /\ hist.addFailed
        /\ pc[u] = "blocked" /\ call[u].op = "AddPart"

\* the positions of the calls of op among the calls putMultipart made
CallsOf(op) == {i \in 1..Len(drv.calls) : drv.calls[i].op = op}

\* C19: a putMultipart that initiated a session returns either nil after a
\* Complete that returned nil, without having called Abort, or the error of
\* the step that failed (read, AddPart or Complete) after having called
\* Abort exactly once, as its last call.
C19_CompleteOrAbort ==
    drv.pc \in {"done", "fetched"} /\ mp.open
    => \/ /\ drv.er = Nil
          /\ drv.failed = NoFailure
          /\ hist.completeOk
          /\ CallsOf("Abort") = {}
          /\ CallsOf("Complete") = {Len(drv.calls)}
       \/ /\ drv.failed.step \in {"read", "AddPart", "Complete"}
          /\ drv.er # Nil
          /\ drv.er = drv.failed.er
          /\ ~hist.completeOk
          /\ CallsOf("Abort") = {Len(drv.calls)}
          /\ drv.failed.at = Len(drv.calls) - 1

\* Complete failed after two parts, and the one Abort that followed failed
C19_Witness ==
    /\ drv.pc = "done" /\ mp.open
    /\ drv.failed.step = "Complete" /\ hist.completeFailed
    /\ Len(hist.addOk) = 2
    /\ CallsOf("Abort") = {Len(drv.calls)}
    /\ ret[Driver] # Nil /\ ~mp.completed

(***************************************************************************)
(* wrapError on its own.                                                   *)
(***************************************************************************)
\* the longest response body tried
MaxBody == 2

\* the non-success statuses tried: success-class, redirects, client errors
\* and server errors
WrapStatuses == {201, 204, 301, 307, 400, 403, 404, 429, 499, 500, 501, 503,
                 599}

\* one call of wrapError(resp) on a response whose body is still unread
WrapInit ==
    /\ InitCommon
    /\ drv = DrvOff
    /\ \E status \in WrapStatuses, body \in SeqsUpTo(MaxBody) :
          fn = [name |-> "wrapError", pc |-> "called", status |-> status,
                body |-> body, out |-> Pending]

\* error.go lines 23-31: ioutil.ReadAll(resp.Body), then the S3Error
WrapError ==
    /\ fn.name = "wrapError"
    /\ fn.pc = "called"
    /\ fn' = [fn EXCEPT !.pc = "returned",
                        !.out = S3Error(fn.status, fn.body)]
    /\ UNCHANGED <<mp, lock, pc, call, req, resp, ret, nsent, store, ncalls,
                   hist, got, drv>>

WrapNext == WrapError

WrapSpec == WrapInit /\ [][WrapNext]_vars

ServerErrorClass == 500..599

\* C16: wrapError returns the typed error whose code is the status of the
\* response and whose body is the raw body of the response; its retry flag
\* is true only for a status of the 500 class and false for every other
\* status.
C16_WrapError ==
    fn.name = "wrapError" /\ fn.pc = "returned"
    => /\ fn.out.type = "S3Error"
       /\ fn.out.code = fn.status
       /\ fn.out.body = fn.body
       /\ fn.out.retry => fn.status \in ServerErrorClass
       /\ fn.status \notin ServerErrorClass => ~fn.out.retry

\* a 500 with a body of two bytes was mapped to a retryable error
C16_Witness ==
    /\ fn.name = "wrapError" /\ fn.pc = "returned"
    /\ fn.status = 500 /\ Len(fn.body) = 2
    /\ fn.out.retry /\ fn.out.body = fn.body

(***************************************************************************)
(* signRequest on its own.  Strings are sequences of byte codes, so that    *)
(* sort.Strings and url.QueryEscape work on them as they do in Go.         *)
(***************************************************************************)
\* the most query parameters added to a request
MaxQuery == 2

\* "a", "a/" and "b"
QueryKeys == {<<97>>, <<97, 47>>, <<98>>}
\* "" and "/"
QueryVals == {<<>>, <<47>>}
QueryParams == [key : QueryKeys, val : QueryVals]

RECURSIVE ParamSeqs(_)
ParamSeqs(n) ==
    IF n = 0 THEN {<<>>}
    ELSE ParamSeqs(n - 1) \cup
         {Append(q, p) : q \in {x \in ParamSeqs(n - 1) : Len(x) = n - 1},
                         p \in QueryParams}

\* the orders in which n things can come
Orders(n) == {f \in [1..n -> 1..n] : \A i, j \in 1..n : f[i] = f[j] => i = j}

\* the same parameters added in the order f
Reordered(q, f) == [i \in 1..Len(q) |-> q[f[i]]]

\* the values added for a key, in the order they were added
RECURSIVE ValuesOf(_, _)
ValuesOf(q, key) ==
    IF q = <<>> THEN <<>>
    ELSE IF Head(q).key = key THEN <<Head(q).val>> \o ValuesOf(Tail(q), key)
    ELSE ValuesOf(Tail(q), key)

\* line 47: req.URL.Query(), the map from each key to its values
Query(q) ==
    [key \in {q[i].key : i \in 1..Len(q)} |-> ValuesOf(q, key)]

\* the comparison of strings sort.Strings uses: byte by byte
RECURSIVE LexLess(_, _)
LexLess(a, b) ==
    IF b = <<>> THEN FALSE
    ELSE IF a = <<>> THEN TRUE
    ELSE IF Head(a) # Head(b) THEN Head(a) < Head(b)
    ELSE LexLess(Tail(a), Tail(b))

\* the keys left in the order the map handed them out
SortStringsSkipped(keys) == keys

\* line 55: sort.Strings(keys)
RECURSIVE SortStrings(_)
SortStrings(keys) ==
    IF keys = <<>> THEN <<>>
    ELSE LET least == CHOOSE i \in 1..Len(keys) :
                          \A j \in 1..Len(keys) :
                              j # i => LexLess(keys[i], keys[j])
             rest == [j \in 1..(Len(keys) - 1) |->
                         IF j < least THEN keys[j] ELSE keys[j + 1]]
         IN  <<keys[least]>> \o SortStrings(rest)

\* url.QueryEscape: "/" becomes "%2F", a letter stays
RECURSIVE QueryEscape(_)
QueryEscape(str) ==
    IF str = <<>> THEN <<>>
    ELSE (IF Head(str) = 47 THEN <<37, 50, 70>> ELSE <<Head(str)>>)
         \o QueryEscape(Tail(str))

\* lines 62-71: the parts of one key, one for each of its values
RECURSIVE KeyParts(_, _)
KeyParts(key, vals) ==
    IF vals = <<>> THEN <<>>
    ELSE <<IF Head(vals) = <<>> THEN QueryEscape(key)
           ELSE QueryEscape(key) \o <<61>> \o QueryEscape(Head(vals))>>
         \o KeyParts(key, Tail(vals))

\* lines 59-71: the parts of all the keys
RECURSIVE QueryParts(_, _)
QueryParts(query, keys) ==
    IF keys = <<>> THEN <<>>
    ELSE KeyParts(Head(keys), query[Head(keys)])
         \o QueryParts(query, Tail(keys))

\* strings.Join(parts, "&")
RECURSIVE Join(_)
Join(parts) ==
    IF parts = <<>> THEN <<>>
    ELSE IF Len(parts) = 1 THEN Head(parts)
    ELSE Head(parts) \o <<38>> \o Join(Tail(parts))

\* lines 41 and 76-78: "/" + bucket + path, "?" and the query if there is one
Resource(path, rawQuery) ==
    <<47, 98>> \o path \o (IF rawQuery = <<>> THEN <<>>
                           ELSE <<63>> \o rawQuery)

\* lines 92-93: HMAC-SHA1 of the string under the secret
HmacSha1(secret, authStr) == <<"hmac-sha1", secret, authStr>>

\* signRequest, lines 39-98, on a request whose query was added as q; the
\* map hands its keys out in the order iter, the clock reads now
signRequest(r, q, iter, now) ==
    LET query == Query(q)
        handed == [i \in 1..Len(iter) |-> iter[i]]
        keys == SortStrings(handed)
        parts == QueryParts(query, keys)
        rawQuery == IF q = <<>> THEN <<>> ELSE Join(parts)
        date == IF r.Date = "" THEN now ELSE r.Date
        authStr == <<r.method, r.ContentMD5, r.ContentType, date,
                     Resource(r.path, rawQuery)>>
    IN  [RawQuery |-> rawQuery, Date |-> date, keys |-> keys,
         parts |-> parts,
         Authorization |->
             <<"AWS", "accessId">> \o Base64(HmacSha1("secret", authStr))]

\* the orders in which a map with these keys can hand them out
KeyIterations(q) ==
    LET ks == {q[i].key : i \in 1..Len(q)}
        n == Cardinality(ks)
    IN  {f \in [1..n -> ks] : \A i, j \in 1..n : f[i] = f[j] => i = j}

\* line 80-82: the times time.Now() can return, read only when the
\* request has no Date header
Clock(r) == IF r.Date = "" THEN {"t1", "t2"} ELSE {r.Date}

\* two requests are built with the same method, headers and path; their
\* query parameters are the same, added in two orders
SignInit ==
    /\ InitCommon
    /\ drv = DrvOff
    /\ \E q \in ParamSeqs(MaxQuery), date \in {"", "d1"} :
       \E f \in Orders(Len(q)) :
          fn = [name |-> "signRequest", pc |-> "called",
                r |-> [method |-> "PUT", ContentMD5 |-> "",
                       ContentType |-> "", Date |-> date, path |-> <<47, 97>>],
                q1 |-> q, q2 |-> Reordered(q, f),
                out1 |-> <<>>, out2 |-> <<>>]

\* both requests are signed
SignBoth ==
    /\ fn.name = "signRequest"
    /\ fn.pc = "called"
    /\ \E i1 \in KeyIterations(fn.q1), i2 \in KeyIterations(fn.q2),
          now1 \in Clock(fn.r), now2 \in Clock(fn.r) :
          fn' = [fn EXCEPT !.pc = "returned",
                           !.out1 = signRequest(fn.r, fn.q1, i1, now1),
                           !.out2 = signRequest(fn.r, fn.q2, i2, now2)]
    /\ UNCHANGED <<mp, lock, pc, call, req, resp, ret, nsent, store, ncalls,
                   hist, got, drv>>

SignNext == SignBoth

SignSpec == SignInit /\ [][SignNext]_vars

\* the part signRequest emits for a parameter
PartOf(p) ==
    IF p.val = <<>> THEN QueryEscape(p.key)
    ELSE QueryEscape(p.key) \o <<61>> \o QueryEscape(p.val)

\* C15: two requests with the same method, Content-MD5, Content-Type, Date
\* and path whose query parameters are the same key/value pairs added in
\* different key orders get the same canonical query string and the same
\* Authorization; in the canonical query the keys come in lexicographic
\* order, each parameter once, one with an empty value as its bare key.
C15_SignOrderIndependent ==
    fn.name = "signRequest" /\ fn.pc = "returned"
    /\ fn.out1.Date = fn.out2.Date
    /\ Query(fn.q1) = Query(fn.q2)
    => /\ fn.out1.RawQuery = fn.out2.RawQuery
       /\ fn.out1.Authorization = fn.out2.Authorization
       /\ \A i, j \in 1..Len(fn.out1.keys) :
             i < j => LexLess(fn.out1.keys[i], fn.out1.keys[j])
       /\ Len(fn.out1.parts) = Len(fn.q1)
       /\ \A i \in 1..Len(fn.q1) :
             \E j \in 1..Len(fn.out1.parts) :
                 fn.out1.parts[j] = PartOf(fn.q1[i])

\* "b=/" was added before "a/" in one request and after it in the other,
\* "a/" without a value; both were signed alike, as "a%2F&b=%2F"
C15_Witness ==
    /\ fn.name = "signRequest" /\ fn.pc = "returned"
    /\ fn.q1 = <<[key |-> <<98>>, val |-> <<47>>],
                 [key |-> <<97, 47>>, val |-> <<>>]>>
    /\ fn.q2 = <<fn.q1[2], fn.q1[1]>>
    /\ fn.out1.Date = fn.out2.Date
    /\ fn.out1.RawQuery = <<97, 37, 50, 70, 38, 98, 61, 37, 50, 70>>
    /\ fn.out2.RawQuery = fn.out1.RawQuery
    /\ fn.out1.Authorization = fn.out2.Authorization

(***************************************************************************)
(* S3.Put.  A size is an int64; it is kept as whole GiB and a remainder    *)
(* so that 3*1024*1024*1024 and the sizes around it stay exact.            *)
(***************************************************************************)
\* the most whole GiB in a size passed to Put
MaxGiB == 4

GiB == 1024 * 1024 * 1024

\* the int64 gib * GiB + rem, 0 <= rem < GiB
Size(gib, rem) == [gib |-> gib, rem |-> rem]

\* the sizes passed to Put: each multiple of a GiB, one byte more and one
\* byte less than the next
PutSizes == {Size(g, r) : g \in 0..MaxGiB, r \in {0, 1, GiB - 1}}

\* line 157: 3*1024*1024*1024
MultipartThreshold == Size(3, 0)

\* a dispatch that goes multipart from the threshold on
SizeGreaterOrEqual(a, b) ==
    a.gib > b.gib \/ (a.gib = b.gib /\ a.rem >= b.rem)

\* line 157: size > 3*1024*1024*1024 on int64
SizeGreater(a, b) ==
    a.gib > b.gib \/ (a.gib = b.gib /\ a.rem > b.rem)

\* line 158: the size handed to putMultipart.  putMultipart is followed in
\* the small bytes of the driver above: one of them stands for a GiB of the
\* size, a started GiB counting as a whole one
DrvSize(size) == size.gib + (IF size.rem > 0 THEN 1 ELSE 0)

\* Put, lines 161-180: the single request
PutRequest(c) ==
    SignRequest(
        [Request("PUT", Path) EXCEPT
            !.ContentMD5 = IF c.md5sum # <<>> THEN Base64(c.md5sum) ELSE <<>>,
            !.ContentType = IF c.contentType = ""
                            THEN "application/octet-stream"
                            ELSE c.contentType,
            !.ContentLength = c.size,
            !.Host = "host",
            !.data = c.stream])

\* Put, lines 182-192
PutFinish(how, reply) ==
    IF how = "transport" THEN ErrTransport
    ELSE IF ~StatusOK(reply.status) THEN S3Error(reply.status, reply.body)
    ELSE Nil

\* one call of Put(r, size, path, md5sum, contentType)
PutInit ==
    /\ InitCommon
    /\ drv = DrvOff
    /\ \E stream \in SeqsUpTo(MaxStream), size \in PutSizes,
          ct \in ContentTypes :
       \E md5sum \in {<<>>, Md5(stream)} :
          fn = [name |-> "Put", pc |-> "called", stream |-> stream,
                size |-> size, md5sum |-> md5sum, contentType |-> ct,
                req |-> NoRequest, ret |-> Pending]

\* lines 157-182: the test of the size, then either putMultipart or the
\* request handed to the client
PutCall ==
    /\ fn.name = "Put"
    /\ fn.pc = "called"
    /\ ValidURL(Path)
    /\ IF SizeGreater(fn.size, MultipartThreshold)
       THEN /\ fn' = [fn EXCEPT !.pc = "multipart"]
            /\ drv' = [DrvOff EXCEPT !.pc = "start", !.stream = fn.stream,
                                     !.size = DrvSize(fn.size),
                                     !.contentType = fn.contentType]
            /\ UNCHANGED nsent
       ELSE /\ fn' = [fn EXCEPT !.pc = "wait", !.req = PutRequest(fn)]
            /\ nsent' = nsent + 1
            /\ UNCHANGED drv
    /\ UNCHANGED <<mp, lock, pc, call, req, resp, ret, store, ncalls, hist,
                   got>>

\* lines 182-192: the store answers the single request
PutReturn ==
    /\ fn.name = "Put"
    /\ fn.pc = "wait"
    /\ \E reply \in StoreReplies(store, fn.req),
          how \in Deliveries \ {"readbody"} :
          /\ store' = reply.store
          /\ fn' = [fn EXCEPT !.pc = "returned",
                              !.ret = PutFinish(how, reply)]
    /\ UNCHANGED <<mp, lock, pc, call, req, resp, ret, nsent, ncalls, hist,
                   got, drv>>

\* line 158: Put returns what putMultipart returned
PutMultipartReturned ==
    /\ fn.name = "Put"
    /\ fn.pc = "multipart"
    /\ drv.pc = "done"
    /\ fn' = [fn EXCEPT !.pc = "returned", !.ret = drv.er]
    /\ UNCHANGED <<mp, lock, pc, call, req, resp, ret, nsent, store, ncalls,
                   hist, got, drv>>

PutNext ==
    \/ PutCall
    \/ PutReturn
    \/ PutMultipartReturned
    \/ DrvStart
    \/ DrvLoop
    \/ DrvAddPartReturned
    \/ DrvCompleteReturned
    \/ DrvDefer
    \/ DrvAbortReturned
    \/ Acquire(Driver)
    \/ Begin(Driver)
    \/ Finish(Driver)
    \/ Return(Driver)

PutSpec == PutInit /\ [][PutNext]_vars

\* the size is more than 3 GiB
OverThreeGiB(size) == size.gib > 3 \/ (size.gib = 3 /\ size.rem > 0)

\* C14: Put runs putMultipart exactly when size is more than 3 GiB; for a
\* size of 3 GiB or less it sends one PUT of the object and nothing else:
\* no session is initiated and no method of a session runs.
C14_PutDispatch ==
    fn.name = "Put" /\ fn.pc # "called"
    => /\ OverThreeGiB(fn.size) <=> drv.pc # "off"
       /\ OverThreeGiB(fn.size) => fn.req = NoRequest
       /\ ~OverThreeGiB(fn.size)
          => /\ ~mp.open /\ ~store.active /\ mp = NoSession
             /\ \A t \in Threads : pc[t] = "idle"
             /\ nsent = 1
             /\ fn.req.method = "PUT" /\ ~fn.req.uploads
             /\ fn.req.uploadId = "" /\ fn.req.partNumber = -1
             /\ fn.req.ContentLength = fn.size
             /\ fn.req.data = fn.stream

\* a Put of exactly 3 GiB returned nil after its single request
C14_Witness ==
    /\ fn.name = "Put" /\ fn.pc = "returned"
    /\ fn.size = Size(3, 0) /\ fn.ret = Nil
    /\ nsent = 1 /\ drv.pc = "off" /\ store.object = fn.stream

(***************************************************************************)
(* The finalizer StartMultipart sets on the session.                       *)
(***************************************************************************)
\* the callers have dropped the session: the garbage collector finds it
\* unreachable and starts the finalizer, func(mp) { mp.Abort() }
Discard ==
    /\ fn = FnOff
    /\ drv.pc = "off"
    /\ mp.open
    /\ \A t \in Callers : pc[t] = "idle"
    /\ fn' = [name |-> "finalizer"]
    /\ call' = [call EXCEPT ![Finalizer] = AbortCall]
    /\ ret' = [ret EXCEPT ![Finalizer] = Pending]
    /\ pc' = [pc EXCEPT ![Finalizer] = "blocked"]
    /\ UNCHANGED <<mp, lock, req, resp, nsent, store, ncalls, hist, got, drv>>

\* the callers of Spec, and the finalizer once they are done
FinalizerNext ==
    \/ Next
    \/ Discard
    \/ Acquire(Finalizer)
    \/ Begin(Finalizer)
    \/ Finish(Finalizer)
    \/ Return(Finalizer)

FinalizerSpec == Init /\ [][FinalizerNext]_vars

\* the session was finalized by a Complete or an Abort that returned nil
WasFinalized == hist.completeOk \/ mp.completed

\* C18: the Abort run by the finalizer sends its request to the store if
\* and only if the session was not finalized, by a Complete or an Abort
\* that returned nil, when it runs (the session's key being one a request
\* can be built for); a finalized session causes no request, and what the
\* Abort returns reaches nobody.
C18_FinalizerAborts ==
    [][/\ Begins(Finalizer) /\ WasFinalized
          => nsent' = nsent /\ pc'[Finalizer] = "return"
       /\ Begins(Finalizer) /\ ~WasFinalized /\ ValidURL(mp.key)
          => /\ nsent' = nsent + 1
             /\ req'[Finalizer].method = "DELETE"
             /\ req'[Finalizer].uploadId = mp.uploadId
       /\ pc[Finalizer] = "return" /\ pc'[Finalizer] = "idle"
          => ret'[Finalizer] = Nil]_vars

(***************************************************************************)
(* Progress of the callers.  http.DefaultClient.Do returns, so a method    *)
(* that waits for the store goes on; a goroutine that can run does run;    *)
(* sync.Mutex hands the lock to a waiter that keeps waiting (its           *)
(* starvation mode), so a caller for which the lock is free again and      *)
(* again gets it.                                                          *)
(***************************************************************************)
\* the most calls the callers make in the runs checked for progress
MaxFairCalls == 3

\* StartMultipart has returned the session the callers share
FairInit ==
    /\ \E reply \in StoreReplies(EmptyStore, StartRequest(Path)) :
          /\ StatusOK(reply.status) /\ reply.xmlOk
          /\ mp = StartFinish("response", reply).mp
          /\ store = reply.store
    /\ nsent = 1
    /\ lock = NoThread
    /\ pc = [t \in Threads |-> "idle"]
    /\ call = [t \in Threads |-> NoCall]
    /\ req = [t \in Threads |-> NoRequest]
    /\ resp = [t \in Threads |-> NoResponse]
    /\ ret = [t \in Threads |-> Nil]
    /\ ncalls = 0
    /\ hist = NoHistory
    /\ got = NotFetched
    /\ drv = DrvOff
    /\ fn = FnOff

\* a caller calls a method while calls are left
FairInvoke(t, c) ==
    /\ ncalls < MaxFairCalls
    /\ Invoke(t, c)

\* the callers call the methods of the session
FairNext ==
    \/ \E t \in Callers, c \in CallerCalls : FairInvoke(t, c)
    \/ \E t \in Callers : Acquire(t)
    \/ \E t \in Callers : Begin(t)
    \/ \E t \in Callers : Finish(t)
    \/ \E t \in Callers : Return(t)

FairSpec ==
    /\ FairInit
    /\ [][FairNext]_vars
    /\ \A t \in Callers :
          /\ SF_vars(Acquire(t))
          /\ WF_vars(Begin(t))
          /\ WF_vars(Finish(t))
          /\ WF_vars(Return(t))

\* C20: every return of AddPart, Complete and Abort releases the lock: no
\* thread holds it once the method has returned; a caller blocked on the
\* lock eventually acquires it, and every call eventually returns.
C20_LockReleasedAndProgress ==
    /\ [][\A t \in Callers :
             pc[t] = "return" /\ pc'[t] = "idle" => lock' = NoThread]_vars
    /\ [](\A t \in Callers : lock = t => InMethod(t))
    /\ \A t \in Callers : (pc[t] = "blocked") ~> (pc[t] = "locked")
    /\ \A t \in Callers : (pc[t] # "idle") ~> (pc[t] = "idle")

\* a caller waits for the lock while another is about to return the
\* already-finalized error
C20_Witness ==
    \E t, u \in Callers :
        /\ pc[t] = "return" /\ ret[t] = ErrFinalized /\ lock = t
        /\ pc[u] = "blocked"

====
